---- MODULE Spec2Model ----
(***************************************************************************)
(* Prompt-to-scene contract of the AR 3D model generator.                  *)
(*                                                                         *)
(*   src/services/geminiService.ts   generate3DStructure, ASSET_LIBRARY    *)
(*   src/unnamed/part_000            GeneratedObject, ShapeRenderer,       *)
(*                                   ShapeMaterial, TEXTURE_MAP            *)
(*   src/App.tsx                     App state and handleGenerate          *)
(*                                                                         *)
(* JavaScript values are tagged records, so that undefined, null, numbers, *)
(* strings, arrays and objects stay distinct and truthiness, property      *)
(* access and destructuring defaults behave as they do in the code.        *)
(* Real numbers are fixed-point hundredths: 0.3 is 30, 1 is 100.           *)
(***************************************************************************)
EXTENDS Integers, Sequences, FiniteSets, TLC

VARIABLES
    apiKey,     \* geminiService.ts:6   the credential read at module load
    prompt,     \* App.tsx:11           sequence of characters
    loading,    \* App.tsx:13
    modelData,  \* App.tsx:14           null or a GeneratedModelData
    error,      \* App.tsx:15           null or a message
    req,        \* the promises returned by generate3DStructure, by call number
    order,      \* call numbers in the order in which their promises settled
    loaded,     \* asset URLs the loader cache (useTexture / Gltf) has resolved
    tree,       \* outcome of the last render of the 3D scene layer
    backend,    \* the answer the backend gives in a one-generation run
    stage       \* "constructed" until the mount effect has run, then "mounted"

vars == <<apiKey, prompt, loading, modelData, error, req, order, loaded, tree,
          backend, stage>>

----------------------------------------------------------------------------
(* JavaScript values *)

Undefined == [t |-> "undefined"]
Null == [t |-> "null"]
Num(n) == [t |-> "number", v |-> n]
Str(s) == [t |-> "string", v |-> s]
Arr(xs) == [t |-> "array", v |-> xs]
Obj(r) == [t |-> "object", v |-> r]
Bool(b) == [t |-> "boolean", v |-> b]
Inherited(k) == [t |-> "inherited", v |-> k]

\* ToBoolean: undefined, null, 0 and "" are falsy; everything else is truthy.
Truthy(x) ==
    CASE x.t = "undefined" -> FALSE
      [] x.t = "null" -> FALSE
      [] x.t = "number" -> x.v # 0
      [] x.t = "string" -> x.v # ""
      [] x.t = "boolean" -> x.v
      [] OTHER -> TRUE

\* x.name or a destructured { name } = x throws a TypeError on undefined and null.
Nullish(x) == x.t \in {"undefined", "null"}

\* x.name for a non-nullish x: the own property, undefined when there is none.
Prop(x, name) ==
    IF x.t = "object" /\ name \in DOMAIN x.v THEN x.v[name] ELSE Undefined

\* x[i] (0-based) for a non-nullish x: the element of an array, the character
\* of a string, the property "i" of an object, undefined otherwise.
Index(x, i) ==
    IF x.t = "array" THEN (IF i + 1 <= Len(x.v) THEN x.v[i + 1] ELSE Undefined)
    ELSE IF x.t = "string"
    THEN (IF i + 1 <= Len(x.v) THEN Str(SubSeq(x.v, i + 1, i + 1)) ELSE Undefined)
    ELSE Prop(x, ToString(i))

\* String(n) for a number held in hundredths: 500 is "5", 30 is "0.3".
NumberToString(n) ==
    LET a == IF n < 0 THEN 0 - n ELSE n
        whole == ToString(a \div 100)
        cents == a % 100
        fraction == IF cents = 0 THEN ""
                    ELSE IF cents % 10 = 0 THEN "." \o ToString(cents \div 10)
                    ELSE IF cents < 10 THEN ".0" \o ToString(cents)
                    ELSE "." \o ToString(cents)
    IN  (IF n < 0 THEN "-" ELSE "") \o whole \o fraction

\* The outcome of a conversion to a string: the string, or a TypeError.
Converted(s) == [threw |-> FALSE, s |-> s]
TypeError == [threw |-> TRUE]

RECURSIVE ToStr(_)
RECURSIVE Join(_)
\* Array.prototype.join(","): null and undefined elements give "", the others
\* are converted in order and the first that throws ends the join.
Join(xs) ==
    IF xs = <<>> THEN Converted("")
    ELSE LET first == IF Nullish(Head(xs)) THEN Converted("") ELSE ToStr(Head(xs))
             rest == Join(Tail(xs))
         IN  IF first.threw THEN TypeError
             ELSE IF Len(xs) = 1 THEN first
             ELSE IF rest.threw THEN TypeError
             ELSE Converted(first.s \o "," \o rest.s)

\* ToString, as applied to a computed property key (table[key]).  A parsed
\* object with an own property "toString" shadows Object.prototype.toString
\* with a value that cannot be called, and valueOf gives no primitive either:
\* "Cannot convert object to primitive value".
ToStr(x) ==
    CASE x.t = "string" -> Converted(x.v)
      [] x.t = "number" -> Converted(NumberToString(x.v))
      [] x.t = "boolean" -> Converted(IF x.v THEN "true" ELSE "false")
      [] x.t = "array" -> Join(x.v)
      [] x.t = "object" ->
            IF "toString" \in DOMAIN x.v THEN TypeError
            ELSE Converted("[object Object]")
      [] x.t = "inherited" ->
            IF x.v = "__proto__" THEN Converted("[object Object]")
            ELSE IF x.v = "constructor"
            THEN Converted("function Object() { [native code] }")
            ELSE Converted("function " \o x.v \o "() { [native code] }")
      [] OTHER -> Converted(x.t)

\* { ...o, name: val }, and o with the property name deleted.
With(o, name, val) ==
    Obj([k \in DOMAIN o.v \cup {name} |-> IF k = name THEN val ELSE o.v[k]])
Without(o, name) == Obj([k \in DOMAIN o.v \ {name} |-> o.v[k]])

\* Properties every object literal inherits from Object.prototype: a lookup
\* table written as { ... } answers these names too, with a truthy value.
ObjectPrototypeKeys ==
    {"constructor", "toString", "toLocaleString", "valueOf", "hasOwnProperty",
     "isPrototypeOf", "propertyIsEnumerable", "__proto__", "__defineGetter__",
     "__defineSetter__", "__lookupGetter__", "__lookupSetter__"}

\* table[key] on an object literal whose own properties are table's: the key
\* is converted to a string first, and the lookup throws when that throws.
Lookup(table, key) ==
    LET k == ToStr(key)
    IN  IF k.threw THEN [threw |-> TRUE]
        ELSE [threw |-> FALSE,
              value |-> IF k.s \in DOMAIN table THEN Str(table[k.s])
                        ELSE IF k.s \in ObjectPrototypeKeys THEN Inherited(k.s)
                        ELSE Undefined]

----------------------------------------------------------------------------
(* Static libraries *)

ASSET_LIBRARY ==
    [duck |-> "https://raw.githubusercontent.com/KhronosGroup/glTF-Sample-Models/master/2.0/Duck/glTF-Binary/Duck.glb",
     robot |-> "https://raw.githubusercontent.com/mrdoob/three.js/master/examples/models/gltf/RobotExpressive/RobotExpressive.glb",
     avocado |-> "https://raw.githubusercontent.com/KhronosGroup/glTF-Sample-Models/master/2.0/Avocado/glTF-Binary/Avocado.glb",
     boombox |-> "https://raw.githubusercontent.com/KhronosGroup/glTF-Sample-Models/master/2.0/BoomBox/glTF-Binary/BoomBox.glb",
     lantern |-> "https://raw.githubusercontent.com/KhronosGroup/glTF-Sample-Models/master/2.0/Lantern/glTF-Binary/Lantern.glb",
     buggy |-> "https://raw.githubusercontent.com/KhronosGroup/glTF-Sample-Models/master/2.0/Buggy/glTF-Binary/Buggy.glb",
     helmet |-> "https://raw.githubusercontent.com/KhronosGroup/glTF-Sample-Models/master/2.0/DamagedHelmet/glTF-Binary/DamagedHelmet.glb"]

TEXTURE_MAP ==
    [wood |-> "https://raw.githubusercontent.com/mrdoob/three.js/master/examples/textures/hardwood2_diffuse.jpg",
     brick |-> "https://raw.githubusercontent.com/mrdoob/three.js/master/examples/textures/brick_diffuse.jpg",
     stone |-> "https://raw.githubusercontent.com/mrdoob/three.js/master/examples/textures/planets/moon_1024.jpg",
     metal |-> "https://raw.githubusercontent.com/mrdoob/three.js/master/examples/textures/carbon/Carbon.png",
     tech |-> "https://raw.githubusercontent.com/mrdoob/three.js/master/examples/textures/uv_grid_opengl.jpg",
     checkers |-> "https://raw.githubusercontent.com/mrdoob/three.js/master/examples/textures/checker.png"]

\* export type ShapeType
ShapeType == {"box", "sphere", "cylinder", "cone", "torus", "capsule"}

----------------------------------------------------------------------------
(* Scene Generator: generate3DStructure *)

MsgApiKeyMissing ==
    "API Key is missing. Please set REACT_APP_API_KEY or check your environment."
MsgGenerationFailed == "Failed to generate 3D model data."
MsgFallback == "Failed to generate object"

Resolved(value) == [ok |-> TRUE, value |-> value]
Rejected(message) == [ok |-> FALSE, message |-> message]

\* JSON.parse(text): throws on text that is not JSON, else the value it denotes.
\* A response text is [text |-> "malformed"] or [text |-> "json", value |-> v].
JSONparse(text) ==
    IF text.text = "json" THEN [threw |-> FALSE, value |-> text.value]
    ELSE [threw |-> TRUE]

\* Lines 108-119: build the result from the parsed value.  parsed.shapes throws
\* when parsed is null, ASSET_LIBRARY[parsed.modelKey] when the key cannot be
\* converted; both are inside the try, whose catch rethrows the generic error.
ProcessResponse(parsed) ==
    IF Nullish(parsed) THEN Rejected(MsgGenerationFailed)
    ELSE
        LET shapes == IF Truthy(Prop(parsed, "shapes"))
                      THEN Prop(parsed, "shapes") ELSE Arr(<<>>)
            modelKey == Prop(parsed, "modelKey")
            asset == Lookup(ASSET_LIBRARY, modelKey)
        IN  IF ~Truthy(modelKey) THEN Resolved(Obj([shapes |-> shapes]))
            ELSE IF asset.threw THEN Rejected(MsgGenerationFailed)
            ELSE IF Truthy(asset.value)
            THEN Resolved(Obj([shapes |-> shapes, modelUrl |-> asset.value]))
            ELSE Resolved(Obj([shapes |-> shapes]))

\* generate3DStructure(prompt) with the credential key and the backend's answer
\* response: [kind |-> "networkError"], [kind |-> "noText"] (response.text is
\* empty or undefined) or [kind |-> "text", text |-> ...].  The prompt is sent
\* to the backend and is not otherwise read.
generate3DStructure(key, p, response) ==
    IF key = "" THEN Rejected(MsgApiKeyMissing)
    ELSE IF response.kind = "networkError" THEN Rejected(MsgGenerationFailed)
    ELSE IF response.kind = "noText" THEN Rejected(MsgGenerationFailed)
    ELSE LET parsed == JSONparse(response.text)
         IN  IF parsed.threw THEN Rejected(MsgGenerationFailed)
             ELSE ProcessResponse(parsed.value)

----------------------------------------------------------------------------
(* Scene Renderer: GeneratedObject *)

DefaultMetalness == 30
DefaultRoughness == 50
ResizeScale == 250

\* A destructuring default applies to undefined only (not to null or 0).
WithDefault(x, d) == IF x = Undefined THEN d ELSE x

TexturedMaterial(url, color, metalness, roughness) ==
    [material |-> "TexturedMaterial", url |-> url, wrap |-> "RepeatWrapping",
     color |-> color, metalness |-> metalness, roughness |-> roughness]

\* ShapeMaterial: [threw |-> TRUE] when the component throws (the texture
\* cannot be converted to a key of TEXTURE_MAP), else the material it returns.
ShapeMaterial(shape) ==
    LET color == Prop(shape, "color")
        metalness == WithDefault(Prop(shape, "metalness"), Num(DefaultMetalness))
        roughness == WithDefault(Prop(shape, "roughness"), Num(DefaultRoughness))
        texture == Prop(shape, "texture")
        url == Lookup(TEXTURE_MAP, texture)
        standard == [material |-> "meshStandardMaterial", color |-> color,
                     metalness |-> metalness, roughness |-> roughness]
    IN  IF ~Truthy(texture) THEN [threw |-> FALSE, element |-> standard]
        ELSE IF url.threw THEN [threw |-> TRUE]
        ELSE IF Truthy(url.value)
        THEN [threw |-> FALSE,
              element |-> TexturedMaterial(url.value, color, metalness, roughness)]
        ELSE [threw |-> FALSE, element |-> standard]

\* The drei primitive and its args for each case of the switch; sizes in
\* hundredths, segment counts as they are.
Geometry(type) ==
    CASE type = "box" -> [mesh |-> "Box", args |-> <<100, 100, 100>>]
      [] type = "sphere" -> [mesh |-> "Sphere", args |-> <<100, 32, 32>>]
      [] type = "cylinder" -> [mesh |-> "Cylinder", args |-> <<100, 100, 100, 32>>]
      [] type = "cone" -> [mesh |-> "Cone", args |-> <<100, 200, 32>>]
      [] type = "torus" -> [mesh |-> "Torus", args |-> <<100, 40, 16, 32>>]
      [] type = "capsule" -> [mesh |-> "Capsule", args |-> <<50, 100, 4, 16>>]

Vector3(x) == <<Index(x, 0), Index(x, 1), Index(x, 2)>>

\* ShapeRenderer and the material it renders: [threw |-> TRUE] when either
\* component throws, else the element returned (<<>> for null, <<node>> for a
\* mesh).  The vectors are indexed before the switch on the type; the material
\* is rendered only inside a mesh, so not for a type the switch does not know.
ShapeRenderer(shape) ==
    IF Nullish(shape) THEN [threw |-> TRUE]
    ELSE
        LET type == Prop(shape, "type")
            position == Prop(shape, "position")
            rotation == Prop(shape, "rotation")
            scale == Prop(shape, "scale")
        IN  IF Nullish(position) \/ Nullish(rotation) \/ Nullish(scale)
            THEN [threw |-> TRUE]
            ELSE IF ~(type.t = "string" /\ type.v \in ShapeType)
            THEN [threw |-> FALSE, element |-> <<>>]
            ELSE IF ShapeMaterial(shape).threw THEN [threw |-> TRUE]
            ELSE [threw |-> FALSE,
                  element |-> <<[node |-> Geometry(type.v).mesh,
                                 args |-> Geometry(type.v).args,
                                 position |-> Vector3(position),
                                 rotation |-> Vector3(rotation),
                                 scale |-> Vector3(scale),
                                 material |-> ShapeMaterial(shape).element]>>]

RECURSIVE MapShapes(_)
\* data.shapes.map(shape => <ShapeRenderer shape={shape} />), rendered in order.
MapShapes(shapes) ==
    IF shapes = <<>> THEN [threw |-> FALSE, children |-> <<>>]
    ELSE LET first == ShapeRenderer(Head(shapes))
             rest == MapShapes(Tail(shapes))
         IN  IF first.threw \/ rest.threw THEN [threw |-> TRUE, children |-> <<>>]
             ELSE [threw |-> FALSE, children |-> first.element \o rest.children]

\* Variant: the shapes are rendered next to the imported model.
GeneratedObjectWithShapes(data) ==
    LET model == IF Truthy(Prop(data, "modelUrl"))
                 THEN <<[node |-> "Gltf", src |-> Prop(data, "modelUrl"),
                         resize |-> ResizeScale]>>
                 ELSE <<>>
    IN  IF Prop(data, "shapes").t # "array"
        THEN [threw |-> TRUE, children |-> <<>>]
        ELSE [threw |-> MapShapes(Prop(data, "shapes").v).threw,
              children |-> model \o MapShapes(Prop(data, "shapes").v).children]

\* GeneratedObject: the children of the Suspense boundary inside the group.
GeneratedObject(data) ==
    IF Truthy(Prop(data, "modelUrl"))
    THEN [threw |-> FALSE,
          children |-> <<[node |-> "Gltf", src |-> Prop(data, "modelUrl"),
                          resize |-> ResizeScale]>>]
    ELSE IF Prop(data, "shapes").t # "array"
    THEN [threw |-> TRUE, children |-> <<>>]
    ELSE MapShapes(Prop(data, "shapes").v)

\* The 3D scene layer of App: {modelData ? <GeneratedObject data={modelData}/> : null}
SceneLayer(data) ==
    IF Truthy(data) THEN GeneratedObject(data)
    ELSE [threw |-> FALSE, children |-> <<>>]

\* The asset a node suspends on until the loader has it: the texture of a
\* TexturedMaterial (useTexture) or the model of a Gltf.
AssetOf(node) ==
    IF node.node = "Gltf" THEN {node.src}
    ELSE IF node.material.material = "TexturedMaterial" THEN {node.material.url}
    ELSE {}

Assets(children) == UNION {AssetOf(children[i]) : i \in DOMAIN children}

\* One Suspense boundary with fallback={null} wraps every child: while any
\* child is suspended the boundary shows the fallback in place of all of them.
Displayed(children, cache) ==
    IF Assets(children) \subseteq cache THEN children ELSE <<>>

----------------------------------------------------------------------------
(* Bounds and inputs *)

MaxRequests == 2
MaxShapes == 2

\* [x, y, z]
V(a, b, c) == Arr(<<Num(a), Num(b), Num(c)>>)

\* "a small red cube": a conforming ShapeData with the optional properties absent.
Cube ==
    Obj([type |-> Str("box"), position |-> V(0, 0, 0), rotation |-> V(0, 0, 0),
         scale |-> V(50, 50, 50), color |-> Str("#ff0000")])

\* Shape entries a response may carry: conforming ones, and ones the schema
\* forbids (the parsed JSON is not validated).
ShapeInputs ==
    { Cube,
      With(With(Cube, "type", Str("sphere")), "texture", Str("brick")),
      With(Cube, "type", Str("pyramid")),
      Without(Cube, "scale"),
      With(Cube, "scale", V(0, 0, 0)),
      With(Cube, "rotation", Null),
      Obj([type |-> Str("pyramid")]),
      With(With(Cube, "metalness", Num(0)), "roughness", Num(0)),
      With(With(With(Cube, "metalness", Num(80)), "roughness", Null),
           "texture", Null),
      With(Cube, "texture", Str("wood")),
      With(Cube, "texture", Str("lava")),
      With(With(Cube, "type", Str("torus")), "texture", Str("constructor")),
      With(Cube, "texture", Obj([toString |-> Num(100)])),
      With(With(With(Cube, "texture", Arr(<<Str("wood")>>)), "position", Str("abc")),
           "scale", Arr(<<Num(200)>>)) }

ShapeLists == UNION {[1..n -> ShapeInputs] : n \in 0..MaxShapes}

ModelKeyInputs ==
    {Undefined, Null, Str("duck"), Str("unicorn"), Str("constructor"),
     Arr(<<Str("duck")>>), Obj([toString |-> Num(100)])}

Json(value) == [kind |-> "text", text |-> [text |-> "json", value |-> value]]

\* What the backend may answer to one request.
Responses ==
    {[kind |-> "networkError"], [kind |-> "noText"],
     [kind |-> "text", text |-> [text |-> "malformed"]],
     Json(Null), Json(Num(5))}
    \cup {Json(Obj([shapes |-> Arr(s), modelKey |-> k])) :
            s \in ShapeLists, k \in ModelKeyInputs}
    \cup {Json(Obj([shapes |-> Arr(s)])) : s \in ShapeLists}
    \cup {Json(Obj([modelKey |-> k])) : k \in ModelKeyInputs}
    \cup {Json(Obj([shapes |-> Str("none"), modelKey |-> k])) : k \in ModelKeyInputs}

\* The answers the App scenario draws from: each failure, a primitive scene, a
\* library model, a textured two-shape scene and a malformed entry.
AppResponses ==
    {[kind |-> "networkError"], [kind |-> "noText"],
     [kind |-> "text", text |-> [text |-> "malformed"]],
     Json(Obj([shapes |-> Arr(<<Cube>>)])),
     Json(Obj([shapes |-> Arr(<<>>), modelKey |-> Str("duck")])),
     Json(Obj([shapes |-> Arr(<<With(Cube, "texture", Str("wood")),
                                With(Cube, "type", Str("sphere"))>>)])),
     Json(Obj([shapes |-> Arr(<<Without(Cube, "scale")>>)]))}

\* Prompts are sequences of characters.  What trim() strips: the white space
\* and line terminator characters (those with no escape are named by code point).
Whitespace ==
    {" ", "\t", "\n", "\r", "\f", "U+000B", "U+00A0", "U+1680", "U+2000",
     "U+2001", "U+2002", "U+2003", "U+2004", "U+2005", "U+2006", "U+2007",
     "U+2008", "U+2009", "U+200A", "U+2028", "U+2029", "U+202F", "U+205F",
     "U+3000", "U+FEFF"}

RECURSIVE TrimStart(_)
TrimStart(s) ==
    IF s # <<>> /\ Head(s) \in Whitespace THEN TrimStart(Tail(s)) ELSE s

RECURSIVE TrimEnd(_)
TrimEnd(s) ==
    IF s # <<>> /\ s[Len(s)] \in Whitespace
    THEN TrimEnd(SubSeq(s, 1, Len(s) - 1)) ELSE s

\* String.prototype.trim
Trim(s) == TrimEnd(TrimStart(s))

PromptDuck == <<"d", "u", "c", "k">>
PromptDuckUpper == <<"D", "u", "c", "k">>
PromptCube == <<"c", "u", "b", "e">>
PromptBlank == <<" ", "\t", "U+00A0">>

AppPrompts == {<<>>, PromptBlank, PromptDuck, <<"\t">> \o PromptCube \o <<"\n">>}
ScenePrompts == {PromptDuck, PromptDuckUpper, PromptCube}

\* The demo model App sets on mount.
DemoShape(type, position, scale, color) ==
    Obj([type |-> Str(type), position |-> position, scale |-> scale,
         rotation |-> V(0, 0, 0), color |-> Str(color)])

DemoModel ==
    Obj([shapes |-> Arr(<<
        With(With(DemoShape("cylinder", V(0, -100, 0), V(120, 20, 120), "#555555"),
                  "texture", Str("stone")), "roughness", Num(90)),
        With(With(DemoShape("cylinder", V(0, -20, 0), V(40, 150, 40), "#8B4513"),
                  "texture", Str("wood")), "roughness", Num(80)),
        With(DemoShape("cone", V(0, 50, 0), V(130, 120, 130), "#228B22"),
             "roughness", Num(100)),
        With(DemoShape("cone", V(0, 120, 0), V(100, 100, 100), "#32CD32"),
             "roughness", Num(100)),
        With(DemoShape("cone", V(0, 180, 0), V(70, 80, 70), "#7CFC00"),
             "roughness", Num(100)),
        With(With(DemoShape("sphere", V(60, 40, 60), V(15, 15, 15), "#FF0000"),
                  "metalness", Num(80)), "roughness", Num(20)),
        With(With(DemoShape("sphere", V(-50, 100, 50), V(15, 15, 15), "#FFFF00"),
                  "metalness", Num(80)), "roughness", Num(20)) >>)])

----------------------------------------------------------------------------
(* App *)

NoTree == [threw |-> FALSE, children |-> <<>>]
Idle == [status |-> "idle"]

\* The component tree is mounted and no render has thrown: an uncaught error
\* in a render unmounts the whole tree (there is no error boundary).
Alive == stage = "mounted" /\ ~tree.threw

Pending == {r \in DOMAIN req : req[r].status = "pending"}
Started == {r \in DOMAIN req : req[r].status # "idle"}

Init ==
    /\ apiKey \in {"", "key"}
    /\ prompt = <<>>
    /\ loading = FALSE
    /\ modelData = Null
    /\ error = Null
    /\ req = [r \in 1..MaxRequests |-> Idle]
    /\ order = <<>>
    /\ loaded = {}
    /\ tree = SceneLayer(Null)
    /\ backend = [kind |-> "networkError"]
    /\ stage = "constructed"

\* useEffect(() => setModelData({...}), [])
Mount ==
    /\ stage = "constructed"
    /\ stage' = "mounted"
    /\ modelData' = DemoModel
    /\ tree' = SceneLayer(DemoModel)
    /\ UNCHANGED <<apiKey, prompt, loading, error, req, order, loaded, backend>>

\* onChange={(e) => setPrompt(e.target.value)}
SetPrompt(p) ==
    /\ Alive
    /\ p # prompt
    /\ prompt' = p
    /\ UNCHANGED <<apiKey, loading, modelData, error, req, order, loaded, tree,
                   backend, stage>>

\* try { setModelData(data) } catch: modelData after the awaited promise settled.
ModelDataAfter(current, outcome) ==
    IF outcome.ok THEN outcome.value ELSE current

\* catch (err) { setError(err.message || "Failed to generate object") }
ErrorAfter(current, outcome) ==
    IF outcome.ok THEN current
    ELSE IF outcome.message # "" THEN Str(outcome.message) ELSE Str(MsgFallback)

\* The backend is not called at all.
NoResponse == [kind |-> "none"]

\* handleGenerate up to its await: the call is numbered in start order.  With
\* the credential missing generate3DStructure throws before any network call,
\* so the catch and finally blocks run in the same task as the start and no
\* other event comes in between.
handleGenerate ==
    /\ Trim(prompt) # <<>>
    /\ Cardinality(Started) < MaxRequests
    /\ LET r == Cardinality(Started) + 1
           outcome == generate3DStructure(apiKey, prompt, NoResponse)
       IN  IF apiKey = ""
           THEN /\ req' = [req EXCEPT ![r] =
                             [status |-> "rejected", message |-> outcome.message]]
                /\ loading' = FALSE
                /\ error' = ErrorAfter(Null, outcome)
                /\ order' = Append(order, r)
                /\ modelData' = ModelDataAfter(modelData, outcome)
                /\ tree' = SceneLayer(ModelDataAfter(modelData, outcome))
           ELSE /\ req' = [req EXCEPT ![r] =
                             [status |-> "pending", prompt |-> prompt]]
                /\ loading' = TRUE
                /\ error' = Null
                /\ UNCHANGED <<order, modelData, tree>>
    /\ UNCHANGED <<apiKey, prompt, loaded, backend, stage>>

\* The generate button: disabled={loading || !prompt.trim()}
ClickGenerate ==
    /\ Alive
    /\ ~(loading \/ Trim(prompt) = <<>>)
    /\ handleGenerate

\* onKeyDown={(e) => e.key === 'Enter' && handleGenerate()}
PressEnter ==
    /\ Alive
    /\ handleGenerate

\* handleGenerate from its await on: the promise of call r settles with what
\* generate3DStructure makes of the backend's response, and the scene layer
\* is rendered again with the new state.  A promise settles whether or not
\* the tree is still there: once a render has thrown, the state setters reach
\* an unmounted component and change nothing.
Settle(r, response) ==
    /\ stage = "mounted"
    /\ req[r].status = "pending"
    /\ LET outcome == generate3DStructure(apiKey, req[r].prompt, response)
       IN  /\ req' = [req EXCEPT ![r] =
                        IF outcome.ok
                        THEN [status |-> "fulfilled", value |-> outcome.value]
                        ELSE [status |-> "rejected", message |-> outcome.message]]
           /\ IF tree.threw
              THEN UNCHANGED <<modelData, error, loading, tree>>
              ELSE /\ modelData' = ModelDataAfter(modelData, outcome)
                   /\ error' = ErrorAfter(error, outcome)
                   /\ loading' = FALSE
                   /\ tree' = SceneLayer(ModelDataAfter(modelData, outcome))
    /\ order' = Append(order, r)
    /\ UNCHANGED <<apiKey, prompt, loaded, backend, stage>>

\* The loader resolves an asset the rendered tree is suspended on.
AssetLoaded(u) ==
    /\ Alive
    /\ u \in Assets(tree.children) \ loaded
    /\ u.t = "string"
    /\ loaded' = loaded \cup {u}
    /\ UNCHANGED <<apiKey, prompt, loading, modelData, error, req, order, tree,
                   backend, stage>>

Next ==
    \/ Mount
    \/ \E p \in AppPrompts : SetPrompt(p)
    \/ ClickGenerate
    \/ PressEnter
    \/ \E r \in 1..MaxRequests : \E response \in AppResponses : Settle(r, response)
    \/ \E u \in Assets(tree.children) : AssetLoaded(u)

Spec == Init /\ [][Next]_vars

----------------------------------------------------------------------------
(* One generation: the App is mounted with the demo model displayed, a      *)
(* prompt is typed, and the backend gives one answer to the one request.    *)

InitScene ==
    /\ apiKey = "key"
    /\ prompt \in ScenePrompts
    /\ backend \in Responses
    /\ stage = "mounted"
    /\ loading = FALSE
    /\ modelData = DemoModel
    /\ error = Null
    /\ req = [r \in 1..MaxRequests |-> Idle]
    /\ order = <<>>
    /\ tree = SceneLayer(DemoModel)
    /\ loaded = Assets(SceneLayer(DemoModel).children)

\* Enter in the prompt input, once.
Submit ==
    /\ Started = {}
    /\ PressEnter

\* The backend answers the request.
Respond == \E r \in 1..MaxRequests : Settle(r, backend)

NextScene ==
    \/ Submit
    \/ Respond
    \/ \E u \in Assets(tree.children) : AssetLoaded(u)

SpecScene == InitScene /\ [][NextScene]_vars

----------------------------------------------------------------------------
(* Claims about the App (specification Spec) *)

Fulfilled == {r \in DOMAIN req : req[r].status = "fulfilled"}

\* The call whose promise was the last to be fulfilled.
LastFulfilled ==
    LET i == CHOOSE i \in DOMAIN order :
                /\ order[i] \in Fulfilled
                /\ \A j \in DOMAIN order : j > i => order[j] \notin Fulfilled
    IN  order[i]

\* C1: once every in-flight request has settled, modelData is exactly the
\* result of the request that was fulfilled last, whatever the start order.
C1_LastWriteWins ==
    (Pending = {} /\ Fulfilled # {}) => modelData = req[LastFulfilled].value

\* The same, as long as no render has thrown: it is the render of a scene
\* with a malformed entry (C7) that stops later results from being taken up.
LastWriteWinsWhileMounted ==
    (Alive /\ Pending = {} /\ Fulfilled # {}) =>
        modelData = req[LastFulfilled].value

\* Two overlapping requests both succeeded with different scenes, the one
\* started first was fulfilled last, and its scene is the one held.
OverlappingRequestsReordered ==
    /\ Alive
    /\ order = <<2, 1>>
    /\ Fulfilled = {1, 2}
    /\ req[1].value # req[2].value
    /\ modelData = req[1].value

RejectStep(r) == req[r].status # "rejected" /\ req'[r].status = "rejected"

\* C2: the step in which a request is rejected sets the error message and
\* leaves modelData, and the tree rendered from it, as they were.
C2_RejectKeepsScene ==
    [][\A r \in DOMAIN req :
          RejectStep(r) =>
              /\ error' = Str(req'[r].message)
              /\ Truthy(error')
              /\ modelData' = modelData
              /\ tree' = tree]_vars

\* The same for a rejection that reaches a mounted tree: after a render has
\* thrown (C7) setError has no component to reach.
RejectKeepsSceneWhileMounted ==
    [][\A r \in DOMAIN req :
          (RejectStep(r) /\ ~tree.threw) =>
              /\ error' = Str(req'[r].message)
              /\ Truthy(error')
              /\ modelData' = modelData
              /\ tree' = tree]_vars

\* A generated scene was displayed, then a later request was rejected: the
\* error is set and the generated scene is still the one held.
RejectedAfterGeneratedScene ==
    /\ Alive
    /\ Len(order) = 2
    /\ req[order[1]].status = "fulfilled"
    /\ req[order[2]].status = "rejected"
    /\ modelData = req[order[1]].value
    /\ modelData # DemoModel
    /\ error = Str(MsgGenerationFailed)

\* C8: loading is true whenever a request is pending.
C8_LoadingWhilePending == (Alive /\ Pending # {}) => loading

----------------------------------------------------------------------------
(* Claims about generate and render (specification SpecScene) *)

UpperCaseLetters == <<"A", "B", "C", "D", "E", "F", "G", "H", "I", "J", "K", "L", "M",
                      "N", "O", "P", "Q", "R", "S", "T", "U", "V", "W", "X", "Y", "Z">>
LowerCaseLetters == <<"a", "b", "c", "d", "e", "f", "g", "h", "i", "j", "k", "l", "m",
                      "n", "o", "p", "q", "r", "s", "t", "u", "v", "w", "x", "y", "z">>

ToLower(c) ==
    IF \E i \in DOMAIN UpperCaseLetters : UpperCaseLetters[i] = c
    THEN LowerCaseLetters[CHOOSE i \in DOMAIN UpperCaseLetters : UpperCaseLetters[i] = c]
    ELSE c
LowerCase(s) == [i \in DOMAIN s |-> ToLower(s[i])]

\* The Asset Library keys, spelled as sequences of characters.
KeyCharacters ==
    [duck |-> <<"d", "u", "c", "k">>,
     robot |-> <<"r", "o", "b", "o", "t">>,
     avocado |-> <<"a", "v", "o", "c", "a", "d", "o">>,
     boombox |-> <<"b", "o", "o", "m", "b", "o", "x">>,
     lantern |-> <<"l", "a", "n", "t", "e", "r", "n">>,
     buggy |-> <<"b", "u", "g", "g", "y">>,
     helmet |-> <<"h", "e", "l", "m", "e", "t">>]

\* The Asset Library keys the prompt matches exactly, ignoring case.
MatchedKeys(p) == {k \in DOMAIN ASSET_LIBRARY : LowerCase(p) = KeyCharacters[k]}

\* generate3DStructure returned a scene; it is held and has been rendered.
Returned == 1 \in Fulfilled

\* C3: for a prompt matching a library key, whatever the backend answered,
\* the returned scene refers to that key's URL and has no shapes.
C3_LibraryPromptGivesModel ==
    \A k \in MatchedKeys(prompt) :
        Returned =>
            /\ Prop(modelData, "modelUrl") = Str(ASSET_LIBRARY[k])
            /\ Prop(modelData, "shapes") = Arr(<<>>)

IsValidEntry(e) ==
    /\ e.t = "object"
    /\ Prop(e, "type").t = "string"
    /\ Prop(e, "type").v \in ShapeType

\* C4: a scene returned without a model reference has a non-empty list of
\* shapes, each of a kind in the closed set.
C4_ReturnedShapesConform ==
    (Returned /\ ~Truthy(Prop(modelData, "modelUrl"))) =>
        LET shapes == Prop(modelData, "shapes")
        IN  /\ shapes.t = "array"
            /\ shapes.v # <<>>
            /\ \A i \in DOMAIN shapes.v : IsValidEntry(shapes.v[i])

Meshes == {Geometry(type).mesh : type \in ShapeType}

\* C5: a scene with a model reference renders as exactly one imported-model
\* node for that reference and no primitive node, whatever its shapes hold.
C5_ReferenceTakesPrecedence ==
    (Returned /\ Truthy(Prop(modelData, "modelUrl"))) =>
        /\ ~tree.threw
        /\ Len(tree.children) = 1
        /\ tree.children[1].node = "Gltf"
        /\ tree.children[1].src = Prop(modelData, "modelUrl")
        /\ \A i \in DOMAIN tree.children : tree.children[i].node \notin Meshes

\* A scene with a model reference and a non-empty list of shapes was rendered.
C5_Witness ==
    /\ Returned
    /\ Prop(modelData, "modelUrl") = Str(ASSET_LIBRARY.duck)
    /\ Prop(modelData, "shapes").t = "array"
    /\ Len(Prop(modelData, "shapes").v) = MaxShapes
    /\ Len(tree.children) = 1

\* The entries of a list whose kind is in the closed set, in order.
ValidEntries(shapes) == SelectSeq(shapes, IsValidEntry)

\* C6: without a model reference, the nodes are one per entry of valid kind,
\* in the order of the entries; entries of unknown kind give no node and do
\* not keep the others from being rendered.
C6_OneNodePerValidEntry ==
    (/\ Returned
     /\ ~Truthy(Prop(modelData, "modelUrl"))
     /\ Prop(modelData, "shapes").t = "array") =>
        LET valid == ValidEntries(Prop(modelData, "shapes").v)
        IN  /\ ~tree.threw
            /\ Len(tree.children) = Len(valid)
            /\ \A i \in DOMAIN valid :
                  tree.children[i].node = Geometry(Prop(valid[i], "type").v).mesh

\* C7: rendering a returned scene never throws.
C7_RenderNeverFails == Returned => ~tree.threw

\* C9: a shape node whose own assets are resolved (or that has none) is
\* displayed, even while a sibling's texture is still loading.
C9_NodesLoadIndependently ==
    (/\ Returned
     /\ ~tree.threw
     /\ \A u \in Assets(tree.children) : u.t = "string") =>
        \A i \in DOMAIN tree.children :
            AssetOf(tree.children[i]) \subseteq loaded =>
                \E j \in DOMAIN Displayed(tree.children, loaded) :
                    Displayed(tree.children, loaded)[j] = tree.children[i]

\* The material the rule of the claim gives a shape entry.
IsTextureKey(x) == x.t = "string" /\ x.v \in DOMAIN TEXTURE_MAP

MaterialRule(e, m) ==
    /\ IF IsTextureKey(Prop(e, "texture"))
       THEN /\ m.material = "TexturedMaterial"
            /\ m.url = Str(TEXTURE_MAP[Prop(e, "texture").v])
       ELSE m.material = "meshStandardMaterial"
    /\ m.metalness = IF "metalness" \in DOMAIN e.v
                     THEN e.v["metalness"] ELSE Num(DefaultMetalness)
    /\ m.roughness = IF "roughness" \in DOMAIN e.v
                     THEN e.v["roughness"] ELSE Num(DefaultRoughness)

\* C10: every rendered shape node carries the material of the rule: textured
\* with the library URL for a Texture Library key, untextured for an absent or
\* any other texture; metalness 0.3 and roughness 0.5 exactly when omitted.
C10_MaterialRule ==
    (/\ Returned
     /\ ~tree.threw
     /\ ~Truthy(Prop(modelData, "modelUrl"))) =>
        LET valid == ValidEntries(Prop(modelData, "shapes").v)
        IN  \A i \in DOMAIN valid : MaterialRule(valid[i], tree.children[i].material)

====
